---- MODULE Spec2Model ----
(***************************************************************************)
(* Xtickr sticker maker (src/app.py): one Streamlit script run of main()   *)
(* as a state machine.  Each stage function of the script is one action;   *)
(* the quality-stepping loop of make_whatsapp_sticker is one action per    *)
(* loop iteration.  External collaborators (file uploader, crop widget,    *)
(* rembg.remove, the WEBP codec, uuid4, PIL text measurement) are          *)
(* nondeterministic choices over small sets of outcomes.                   *)
(*                                                                         *)
(* The crop widget is reached through the name bound at src/app.py:2       *)
(* (import streamlit_cropper as st_cropper), i.e. the package module; a    *)
(* call of a module object raises TypeError, so "raise" is one of the      *)
(* widget outcomes at both call sites (lines 69 and 156).  The other       *)
(* outcomes are the widget's contract: a cropped bitmap, or None.          *)
(***************************************************************************)
EXTENDS Integers, Sequences, FiniteSets, TLC

VARIABLES
    pc,               \* position of the script run
    runs,             \* number of script runs started so far
    image,            \* main: image (line 191)
    cropped_img,      \* main: cropped_img (line 194)
    bg_removed_img,   \* main: bg_removed_img (line 197)
    final_img,        \* main: final_img (line 203)
    text_input,       \* add_text_to_image: text_input
    positioning_mode, \* add_text_to_image: positioning_mode
    text_opacity,     \* add_text_to_image: text_opacity
    alpha,            \* add_text_to_image: a
    position,         \* add_text_to_image: position
    text_bbox,        \* add_text_to_image: <<text_width, text_height>>
    preview_result,   \* value returned by st_cropper at line 156 (discarded)
    crop_ret,         \* what the st_cropper call at line 69 did in this run
    draws,            \* number of ImageDraw.text calls made by this run
    placement_calls,  \* number of st_cropper(key="text_placement") calls
    file_name,        \* make_whatsapp_sticker: file_name
    quality,          \* make_whatsapp_sticker: quality
    attempts,         \* img.save calls of this call: <<[quality, size, name]>>
    output_file,      \* main: output_file (line 211)
    disk,             \* files in the working directory
    msgs,             \* messages shown to the user by this run
    executed          \* stages of main entered by this run

\* the locals of add_text_to_image and what it did
textVars == <<text_input, positioning_mode, text_opacity, alpha, position,
              text_bbox, preview_result, draws, placement_calls>>

\* the locals of make_whatsapp_sticker and its result in main
stickerVars == <<file_name, quality, attempts, output_file>>

vars == <<pc, runs, image, cropped_img, crop_ret, bg_removed_img, final_img,
          textVars, stickerVars, disk, msgs, executed>>

-----------------------------------------------------------------------------
(* Bounds of the model *)

MaxRuns == 2        \* script runs (the framework re-runs main on every input)
MaxTextLen == 2     \* length of the text typed into "Text to Add"

(* Program constants *)

StartQuality == 90  \* line 176
MinQuality == 20    \* line 177
QualityStep == 10   \* line 181
StickerSide == 512  \* line 171
Margin == 10        \* lines 144, 146
MinOpacity == 0     \* line 117
MaxOpacity == 100   \* line 117
MaxBytes == 100 * 1024   \* line 179

-----------------------------------------------------------------------------
(* Values *)

None == [kind |-> "None"]

IsImage(x) == x.kind = "image"      \* isinstance(image, Image.Image), line 96

\* a decoded upload: a 6x4 bitmap
Uploads ==
    { [kind |-> "image", w |-> 6, h |-> 4, mode |-> m,
       px |-> <<[op |-> "file"]>>] : m \in {"RGB"} }

\* selections of the crop widget inside a 6x4 bitmap
Boxes == { [kind |-> "box", x |-> 0, y |-> 0, w |-> 6, h |-> 4],
           [kind |-> "box", x |-> 1, y |-> 1, w |-> 3, h |-> 2] }

\* what a call of the crop widget can do
CropOutcomes == {"raise", "none", "box"}

\* text typed by the user: strings over a blank and a letter
Chars == {" ", "a"}
RECURSIVE SeqsUpTo(_)
SeqsUpTo(n) ==
    IF n = 0 THEN {<<>>}
    ELSE LET shorter == SeqsUpTo(n - 1)
         IN  shorter \cup { Append(s, c) : s \in {t \in shorter : Len(t) = n - 1},
                                           c \in Chars }
Texts == SeqsUpTo(MaxTextLen)

\* bounding boxes <<text_width, text_height>> the font may report
BBoxes == { <<2, 1>>, <<7, 3>> }

Modes == {"Bottom", "Top", "Center", "Custom"}      \* line 120
Opacities == {55, MaxOpacity}
Colors == { <<15, 15, 15, 15, 15, 15>> }            \* "#FFFFFF" as hex digits

\* uuid4().hex[:8]
Ids == {"0a1b2c3d", "9f8e7d6c"}

\* sizes os.path.getsize may report for an encoded file
Sizes == {MaxBytes - 1, MaxBytes, MaxBytes + 1}

-----------------------------------------------------------------------------
(* Helpers *)

\* opacity_to_255 rounding to nearest instead of truncating
opacity_to_255_round(opacity_percent) == (255 * opacity_percent + 50) \div 100

\* line 18-20: int(255 * (opacity_percent / 100)).  int() truncates toward
\* zero; for the slider's integers 0..100 the double product is never below
\* the exact quotient's integer part, so the result is the exact floor.
opacity_to_255(opacity_percent) == (255 * opacity_percent) \div 100

IsSpace(c) == c \in {" ", "\t", "\n"}

\* str.strip(): drop leading and trailing whitespace
RECURSIVE lstrip(_)
lstrip(s) == IF s # <<>> /\ IsSpace(Head(s)) THEN lstrip(Tail(s)) ELSE s
RECURSIVE rstrip(_)
rstrip(s) ==
    IF s # <<>> /\ IsSpace(s[Len(s)]) THEN rstrip(SubSeq(s, 1, Len(s) - 1)) ELSE s
\* the text tested without stripping it
strip_none(s) == s

strip(s) == rstrip(lstrip(s))

\* int(text_color[i:i+2], 16) on the hex digits after '#', lines 124-126
HexPair(digits, i) == 16 * digits[i] + digits[i + 1]

\* Custom mode taking the corner of the preview selection as the position
position_for_preview(mode, img_w, img_h, text_width, text_height, preview) ==
    IF mode = "Bottom" THEN <<(img_w - text_width) \div 2, img_h - text_height - Margin>>
    ELSE IF mode = "Top" THEN <<(img_w - text_width) \div 2, Margin>>
    ELSE IF mode = "Custom" /\ preview.kind = "box" THEN <<preview.x, preview.y>>
    ELSE <<(img_w - text_width) \div 2, (img_h - text_height) \div 2>>

\* lines 143-158: the position of the final draw.  preview is the value
\* returned by the Custom preview widget, which the code does not use.
position_for(mode, img_w, img_h, text_width, text_height, preview) ==
    IF mode = "Bottom" THEN <<(img_w - text_width) \div 2, img_h - text_height - Margin>>
    ELSE IF mode = "Top" THEN <<(img_w - text_width) \div 2, Margin>>
    ELSE IF mode = "Center"
         THEN <<(img_w - text_width) \div 2, (img_h - text_height) \div 2>>
    ELSE <<(img_w - text_width) \div 2, (img_h - text_height) \div 2>>

\* ImageDraw.text on a bitmap
DrawText(img, pos, text, fill) ==
    [img EXCEPT !.px = Append(@, [op |-> "text", pos |-> pos, text |-> text,
                                  fill |-> fill])]

\* crop_image without the st.stop() of line 79
crop_exit_nostop(outcome) ==
    CASE outcome = "raise" -> "aborted"
      [] outcome = "none" -> "remove_background"
      [] outcome = "box" -> "remove_background"

\* lines 77-80: where the run goes after the widget call at line 69
crop_exit(outcome) ==
    CASE outcome = "raise" -> "aborted"
      [] outcome = "none" -> "stopped"                  \* st.stop()
      [] outcome = "box" -> "remove_background"

\* the loop running one step further down
LoopCond_low(q) == q >= MinQuality - QualityStep

\* line 177: the loop condition
LoopCond(q) == q >= MinQuality

\* the size test excluding the cap itself
SizeOk_strict(size) == size < MaxBytes

\* the size test against half the cap
SizeOk_half(size) == size <= 50 * 1024

\* line 179: the size test
SizeOk(size) == size <= MaxBytes

\* the quality stepping down by half a step
NextQuality_half(q) == q - 5

\* line 181: the quality step
NextQuality(q) == q - QualityStep

\* a name made anew for every retry
SaveName_per_attempt(name, q) ==
    <<name[1], name[2], IF q = StartQuality THEN "webp" ELSE "retry">>

\* line 178: the name img.save writes to in the attempt at quality q
SaveName(name, q) == name

\* a write replaces the file of that name
WriteFile(d, name, q, size) ==
    { f \in d : f.name # name } \cup
    { [name |-> name, quality |-> q, size |-> size,
       w |-> StickerSide, h |-> StickerSide] }

-----------------------------------------------------------------------------
Init ==
    /\ pc = "upload"
    /\ runs = 1
    /\ image = None
    /\ cropped_img = None
    /\ bg_removed_img = None
    /\ final_img = None
    /\ text_input = <<>>
    /\ positioning_mode = "Bottom"
    /\ text_opacity = MaxOpacity
    /\ alpha = None
    /\ position = None
    /\ text_bbox = <<>>
    /\ preview_result = None
    /\ crop_ret = "unset"
    /\ draws = 0
    /\ placement_calls = 0
    /\ file_name = None
    /\ quality = None
    /\ attempts = <<>>
    /\ output_file = None
    /\ disk = {}
    /\ msgs = <<>>
    /\ executed = {}

\* the values a run starts from; the files on disk outlive the run
FreshRun ==
    /\ pc' = "upload"
    /\ image' = None
    /\ cropped_img' = None
    /\ crop_ret' = "unset"
    /\ bg_removed_img' = None
    /\ final_img' = None
    /\ text_input' = <<>>
    /\ positioning_mode' = "Bottom"
    /\ text_opacity' = MaxOpacity
    /\ alpha' = None
    /\ position' = None
    /\ text_bbox' = <<>>
    /\ preview_result' = None
    /\ draws' = 0
    /\ placement_calls' = 0
    /\ file_name' = None
    /\ quality' = None
    /\ attempts' = <<>>
    /\ output_file' = None
    /\ msgs' = <<>>
    /\ executed' = {}

\* the sub-bitmap selected by box b
Crop(img, b) ==
    [img EXCEPT !.w = b.w, !.h = b.h,
                !.px = Append(@, [op |-> "crop", x |-> b.x, y |-> b.y])]

\* Image.convert("RGBA"): same pixels, opaque alpha added if absent
ConvertRGBA(img) == [img EXCEPT !.mode = "RGBA"]

\* rembg.remove: an RGBA bitmap with the background made transparent
Matte(img) == [img EXCEPT !.mode = "RGBA", !.px = Append(@, [op |-> "matte"])]

-----------------------------------------------------------------------------
(* Stages of main, lines 189-223 *)

\* lines 37-43
upload_image ==
    /\ pc = "upload"
    /\ executed' = executed \cup {"upload"}
    /\ \E uploaded_file \in Uploads \cup {None} :
          IF uploaded_file = None
          THEN /\ msgs' = Append(msgs, "info_upload")
               /\ pc' = "stopped"                       \* st.stop()
               /\ image' = image
          ELSE /\ image' = uploaded_file
               /\ pc' = "crop"
               /\ msgs' = msgs
    /\ UNCHANGED <<runs, cropped_img, crop_ret, bg_removed_img, final_img,
                   textVars, stickerVars, disk>>

\* lines 49-80
crop_image ==
    /\ pc = "crop"
    /\ executed' = executed \cup {"crop"}
    /\ \E outcome \in CropOutcomes, b \in Boxes :
          /\ crop_ret' = outcome
          /\ pc' = crop_exit(outcome)
          /\ msgs' = IF outcome = "none"
                     THEN msgs \o <<"info_crop", "warn_crop">>
                     ELSE Append(msgs, "info_crop")
          /\ cropped_img' = IF outcome = "box" THEN Crop(image, b) ELSE cropped_img
    /\ UNCHANGED <<runs, image, bg_removed_img, final_img, textVars,
                   stickerVars, disk>>

\* lines 86-106; falling off the except branch returns None
remove_background ==
    /\ pc = "remove_background"
    /\ executed' = executed \cup {"remove_background"}
    /\ \E remove_bg \in BOOLEAN, outcome \in {"ok", "raise"} :
          IF ~remove_bg
          THEN IF IsImage(cropped_img)
               THEN /\ bg_removed_img' = ConvertRGBA(cropped_img)
                    /\ msgs' = msgs
                    /\ pc' = "preview_bg"
               ELSE \* no convert attribute: AttributeError
                    /\ pc' = "aborted"
                    /\ UNCHANGED <<bg_removed_img, msgs>>
          ELSE IF ~IsImage(cropped_img)
          THEN /\ msgs' = Append(msgs, "error_invalid")
               /\ pc' = "stopped"                       \* st.stop()
               /\ bg_removed_img' = bg_removed_img
          ELSE IF outcome = "ok"
          THEN /\ bg_removed_img' = Matte(cropped_img)
               /\ msgs' = Append(msgs, "bg_success")
               /\ pc' = "preview_bg"
          ELSE /\ msgs' = Append(msgs, "bg_error")
               /\ bg_removed_img' = None
               /\ pc' = "preview_bg"
    /\ UNCHANGED <<runs, image, cropped_img, crop_ret, final_img, textVars,
                   stickerVars, disk>>

\* line 200: st.sidebar.image(bg_removed_img, ...); what the framework does
\* with None is its own business: it raises or it carries on
preview_bg ==
    /\ pc = "preview_bg"
    /\ executed' = executed \cup {"preview_bg"}
    /\ \E outcome \in {"ok", "raise"} :
          IF bg_removed_img = None /\ outcome = "raise"
          THEN pc' = "aborted"
          ELSE pc' = "add_text"
    /\ UNCHANGED <<runs, image, cropped_img, crop_ret, bg_removed_img,
                   final_img, textVars, stickerVars, disk, msgs>>

\* lines 111-163
add_text_to_image ==
    /\ pc = "add_text"
    /\ executed' = executed \cup {"add_text"}
    /\ \E text \in Texts, text_color \in Colors, opacity \in Opacities,
          mode \in Modes, bbox \in BBoxes,
          outcome \in CropOutcomes, b \in Boxes :
        LET a == opacity_to_255(opacity)
            fill_color == <<HexPair(text_color, 1), HexPair(text_color, 3),
                            HexPair(text_color, 5), a>>
            text_width == bbox[1]
            text_height == bbox[2]
            img_w == bg_removed_img.w
            img_h == bg_removed_img.h
            preview == IF outcome = "box" THEN b ELSE None
            pos == position_for(mode, img_w, img_h, text_width, text_height, preview)
        IN
        /\ text_input' = text
        /\ positioning_mode' = mode
        /\ text_opacity' = opacity
        /\ alpha' = a
        /\ IF bg_removed_img = None
           THEN \* image.copy() on None raises AttributeError
                /\ pc' = "aborted"
                /\ UNCHANGED <<final_img, position, text_bbox, preview_result,
                               draws, placement_calls, msgs>>
           ELSE IF strip(text) = <<>>
           THEN /\ final_img' = bg_removed_img
                /\ pc' = "final_preview"
                /\ UNCHANGED <<position, text_bbox, preview_result, draws,
                               placement_calls, msgs>>
           ELSE IF mode # "Custom"
           THEN /\ text_bbox' = bbox
                /\ position' = pos
                /\ final_img' = DrawText(bg_removed_img, pos, text, fill_color)
                /\ draws' = draws + 1
                /\ pc' = "final_preview"
                /\ UNCHANGED <<preview_result, placement_calls, msgs>>
           ELSE /\ text_bbox' = bbox
                /\ msgs' = Append(msgs, "warn_custom")
                /\ placement_calls' = placement_calls + 1
                /\ IF outcome = "raise"
                   THEN /\ draws' = draws + 1        \* the draw on temp_img
                        /\ pc' = "aborted"
                        /\ UNCHANGED <<final_img, position, preview_result>>
                   ELSE /\ preview_result' = preview
                        /\ position' = pos
                        /\ final_img' = DrawText(bg_removed_img, pos, text, fill_color)
                        /\ draws' = draws + 2
                        /\ pc' = "final_preview"
    /\ UNCHANGED <<runs, image, cropped_img, crop_ret, bg_removed_img,
                   stickerVars, disk>>

\* lines 205-207
final_preview ==
    /\ pc = "final_preview"
    /\ executed' = executed \cup {"final_preview"}
    /\ pc' = "button"
    /\ UNCHANGED <<runs, image, cropped_img, crop_ret, bg_removed_img,
                   final_img, textVars, stickerVars, disk, msgs>>

\* line 210 with the button not pressed: the run ends
button_idle ==
    /\ pc = "button"
    /\ pc' = "done"
    /\ UNCHANGED <<runs, image, cropped_img, crop_ret, bg_removed_img,
                   final_img, textVars, stickerVars, disk, msgs, executed>>

-----------------------------------------------------------------------------
(* make_whatsapp_sticker, lines 169-183 *)

\* line 210 with the button pressed, then lines 171-176
sticker_begin ==
    /\ pc = "button"
    /\ executed' = executed \cup {"export"}
    /\ \E unique_id \in Ids :
          file_name' = <<"xtickr_sticker", unique_id, "webp">>
    /\ quality' = StartQuality
    /\ attempts' = <<>>
    /\ pc' = "loop"
    /\ UNCHANGED <<runs, image, cropped_img, crop_ret, bg_removed_img,
                   final_img, textVars, output_file, disk, msgs>>

\* lines 177-181: one iteration of the loop
sticker_encode ==
    /\ pc = "loop"
    /\ LoopCond(quality)
    /\ \E size \in Sizes :
          /\ disk' = WriteFile(disk, SaveName(file_name, quality), quality, size)
          /\ attempts' = Append(attempts,
                [quality |-> quality, size |-> size,
                 name |-> SaveName(file_name, quality)])
          /\ IF SizeOk(size)
             THEN /\ pc' = "return"                     \* break
                  /\ quality' = quality
             ELSE /\ quality' = NextQuality(quality)
                  /\ pc' = "loop"
    /\ UNCHANGED <<runs, image, cropped_img, crop_ret, bg_removed_img,
                   final_img, textVars, file_name, output_file, msgs, executed>>

\* line 177 with the condition false
sticker_loop_exit ==
    /\ pc = "loop"
    /\ ~LoopCond(quality)
    /\ pc' = "return"
    /\ UNCHANGED <<runs, image, cropped_img, crop_ret, bg_removed_img,
                   final_img, textVars, stickerVars, disk, msgs, executed>>

\* line 183, then lines 211-223 of main
sticker_return ==
    /\ pc = "return"
    /\ output_file' = file_name
    /\ msgs' = Append(msgs, "success")
    /\ pc' = IF \E f \in disk : f.name = file_name
             THEN "done"
             ELSE "aborted"                    \* st.image / open: no such file
    /\ UNCHANGED <<runs, image, cropped_img, crop_ret, bg_removed_img,
                   final_img, textVars, file_name, quality, attempts, disk,
                   executed>>

-----------------------------------------------------------------------------
\* the framework runs the script again on the next user interaction
rerun ==
    /\ pc \in {"stopped", "aborted", "done"}
    /\ runs < MaxRuns
    /\ runs' = runs + 1
    /\ disk' = disk
    /\ FreshRun

Next ==
    \/ upload_image
    \/ crop_image
    \/ remove_background
    \/ preview_bg
    \/ add_text_to_image
    \/ final_preview
    \/ button_idle
    \/ sticker_begin
    \/ sticker_encode
    \/ sticker_loop_exit
    \/ sticker_return
    \/ rerun

Spec == Init /\ [][Next]_vars

-----------------------------------------------------------------------------
(* opacity_to_255 on its own: every value of the opacity slider *)

InitOpacity ==
    /\ pc = "opacity_call"
    /\ runs = 1
    /\ image = None
    /\ cropped_img = None
    /\ crop_ret = "unset"
    /\ bg_removed_img = None
    /\ final_img = None
    /\ text_input = <<>>
    /\ positioning_mode = "Bottom"
    /\ text_opacity \in MinOpacity..MaxOpacity
    /\ alpha = None
    /\ position = None
    /\ text_bbox = <<>>
    /\ preview_result = None
    /\ draws = 0
    /\ placement_calls = 0
    /\ file_name = None
    /\ quality = None
    /\ attempts = <<>>
    /\ output_file = None
    /\ disk = {}
    /\ msgs = <<>>
    /\ executed = {}

\* line 127: a = opacity_to_255(text_opacity)
opacity_call ==
    /\ pc = "opacity_call"
    /\ alpha' = opacity_to_255(text_opacity)
    /\ pc' = "opacity_ret"
    /\ UNCHANGED <<runs, image, cropped_img, crop_ret, bg_removed_img,
                   final_img, text_input, positioning_mode, text_opacity,
                   position, text_bbox, preview_result, draws, placement_calls,
                   stickerVars, disk, msgs, executed>>

NextOpacity == opacity_call

SpecOpacity == InitOpacity /\ [][NextOpacity]_vars

-----------------------------------------------------------------------------
(* Properties *)

Range(seq) == { seq[i] : i \in 1..Len(seq) }
Qualities(att) == [i \in 1..Len(att) |-> att[i].quality]
QualitySchedule == <<90, 80, 70, 60, 50, 40, 30, 20>>
InSticker == pc \in {"loop", "return"}
Blank(s) == \A i \in 1..Len(s) : s[i] \in {" ", "\t", "\n"}
LaterThanBg == {"preview_bg", "add_text", "final_preview", "export"}

\* C1: whatever sizes the codec reports, a call makes at most 8 encode
\* attempts, their qualities are a prefix of 90, 80, ..., 20 in that order,
\* and after the eighth attempt the loop cannot encode again.
C1_AttemptsArePrefix ==
    /\ Len(attempts) <= Len(QualitySchedule)
    /\ Qualities(attempts) = SubSeq(QualitySchedule, 1, Len(attempts))
    /\ (pc = "loop" /\ Len(attempts) = Len(QualitySchedule)) => ~ENABLED sticker_encode

C1_Witness ==
    /\ pc = "return"
    /\ Len(attempts) = 8
    /\ \A i \in 1..8 : attempts[i].size > MaxBytes

\* C2 as stated: inside make_whatsapp_sticker the quality variable is never
\* below 20, also after the loop was left without meeting the size target.
C2_QualityNeverBelow20 == InSticker => quality >= 20

\* C2 amended: every encode attempt uses a quality in 20..90; the quality
\* variable is never negative and is below 20 only as 10, after the
\* quality-20 attempt missed the cap, when no further encode happens.
C2_EncodedQualityAtLeast20 ==
    /\ \A i \in 1..Len(attempts) :
          attempts[i].quality >= 20 /\ attempts[i].quality <= 90
    /\ InSticker =>
          /\ quality >= 0
          /\ quality < 20 =>
                /\ quality = 10
                /\ Len(attempts) = 8
                /\ attempts[8].quality = 20
                /\ attempts[8].size > MaxBytes
                /\ ~ENABLED sticker_encode

C2_Witness == pc = "return" /\ quality = 10 /\ Len(attempts) = 8

\* C3: when make_whatsapp_sticker returns, the file of that name is either
\* within 100 KiB and the encoding of the first attempt that met the cap, or
\* all eight qualities were tried and the file is the quality-20 encoding;
\* the call returns the file name and the run does not abort.
C3_ReturnedFile ==
    /\ pc = "return" =>
          LET n == Len(attempts)
              files == { f \in disk : f.name = file_name }
          IN  /\ n >= 1
              /\ Cardinality(files) = 1
              /\ \A f \in files :
                    \/ /\ f.size <= 100 * 1024
                       /\ f.quality = attempts[n].quality
                       /\ f.size = attempts[n].size
                       /\ \A i \in 1..(n - 1) : attempts[i].size > 100 * 1024
                    \/ /\ Qualities(attempts) = QualitySchedule
                       /\ f.quality = 20
                       /\ f.size = attempts[n].size
    /\ ("export" \in executed /\ pc \in {"done", "stopped", "aborted"}) =>
          pc = "done" /\ output_file = file_name

C3_Witness ==
    /\ pc = "done"
    /\ "export" \in executed
    /\ Len(attempts) = 8
    /\ attempts[8].size > MaxBytes
    /\ \E f \in disk : f.name = output_file /\ f.quality = 20 /\ f.size > MaxBytes

\* C4: once the matting call has raised, no later stage of the run (preview
\* after removal, text overlay, final preview, export) is entered.
C4_HaltsOnMattingError ==
    "bg_error" \in Range(msgs) => executed \cap LaterThanBg = {}

\* C5: a run without an upload stops in upload_image after the upload prompt,
\* and a run whose crop widget returned None stops in crop_image after the
\* crop warning; no later stage is entered in either run.
C5_HaltsOnMissingInput ==
    /\ ("upload" \in executed /\ image = None) =>
          /\ pc = "stopped"
          /\ executed = {"upload"}
          /\ msgs = <<"info_upload">>
    /\ crop_ret = "none" =>
          /\ pc = "stopped"
          /\ executed = {"upload", "crop"}
          /\ msgs[Len(msgs)] = "warn_crop"
          /\ bg_removed_img = None /\ final_img = None /\ attempts = <<>>

C5_Witness ==
    /\ crop_ret = "none"
    /\ pc = "stopped"
    /\ image # None
    /\ runs = 2

\* C6: if the first encode, at quality 90, is within 100 KiB, the call makes
\* exactly that one attempt.
C6_OneAttemptWhenFirstFits ==
    (attempts # <<>> /\ attempts[1].size <= 100 * 1024) =>
        /\ attempts[1].quality = 90
        /\ Len(attempts) = 1
        /\ pc # "loop"

C6_Witness ==
    /\ pc = "done"
    /\ Len(attempts) = 1
    /\ attempts[1].size = MaxBytes

\* C7 as stated: opacity_to_255(p) is the integer nearest to 255*p/100, with
\* 0 for p = 0 and 255 for p = 100.
C7_RoundsToNearest ==
    pc = "opacity_ret" =>
        /\ 2 * (100 * alpha - 255 * text_opacity) <= 100
        /\ 2 * (255 * text_opacity - 100 * alpha) <= 100
        /\ text_opacity = 0 => alpha = 0
        /\ text_opacity = 100 => alpha = 255

\* C7 amended: opacity_to_255(p) is 255*p/100 with the fraction dropped
\* (the largest integer not above it), with 0 for p = 0 and 255 for p = 100.
C7_Truncates ==
    pc = "opacity_ret" =>
        /\ 100 * alpha <= 255 * text_opacity
        /\ 255 * text_opacity < 100 * (alpha + 1)
        /\ text_opacity = 0 => alpha = 0
        /\ text_opacity = 100 => alpha = 255

C7_Witness == pc = "opacity_ret" /\ text_opacity = 50 /\ alpha = 127

\* C8: every encode attempt of a call writes to the one name chosen before
\* the loop; when the call returns, exactly one file written by it exists
\* and holds the last attempt's encoding.
C8_OneFilePerCall ==
    /\ \A i \in 1..Len(attempts) : attempts[i].name = file_name
    /\ pc = "return" =>
          LET n == Len(attempts)
              mine == { f \in disk : \E i \in 1..n : f.name = attempts[i].name }
          IN  /\ Cardinality(mine) = 1
              /\ \A f \in mine : /\ f.name = file_name
                                 /\ f.quality = attempts[n].quality
                                 /\ f.size = attempts[n].size

C8_Witness ==
    /\ pc = "return"
    /\ Len(attempts) >= 3
    /\ Cardinality(disk) = 2

\* C9: with an empty or whitespace-only text, add_text_to_image returns a
\* bitmap equal to its input in every anchor mode, draws nothing and does
\* not call the placement preview widget.
C9_BlankTextLeavesBitmap ==
    ("add_text" \in executed /\ Blank(text_input) /\ bg_removed_img # None) =>
        /\ final_img = bg_removed_img
        /\ draws = 0
        /\ placement_calls = 0
        /\ pc # "aborted"

C9_Witness ==
    /\ pc = "final_preview"
    /\ text_input = <<" ", " ">>
    /\ positioning_mode = "Custom"
    /\ final_img = bg_removed_img

\* C10: in mode Custom the final draw is at the centred position
\* ((img_w - text_width) // 2, (img_h - text_height) // 2), whatever the
\* preview widget returned.
C10_CustomIsCenter ==
    (positioning_mode = "Custom" /\ draws = 2) =>
        LET centre == <<(bg_removed_img.w - text_bbox[1]) \div 2,
                        (bg_removed_img.h - text_bbox[2]) \div 2>>
        IN  /\ position = centre
            /\ final_img.px[Len(final_img.px)].pos = centre

C10_Witness ==
    /\ positioning_mode = "Custom"
    /\ draws = 2
    /\ preview_result # None
    /\ <<preview_result.x, preview_result.y>> # position
    /\ position[1] < 0

====
